---- MODULE Spec2Model ----
(***************************************************************************)
(* Model of the mcscale serial-scale to PLC bridge: the per-port cycle     *)
(* smode_process_serial_data (src/process/serial.py) with its helpers      *)
(* process_weight_data and reset_plc_if_timeout, the 32 to 16 bit split    *)
(* (src/utility/bitconvert.py) and the worker loop that calls the cycle    *)
(* (src/utility/initialset.py).                                            *)
(*                                                                         *)
(* Bytes are one-character strings; "CR" and "LF" stand for \r and \n and  *)
(* "x80" for a byte outside ASCII.  Time is counted in whole seconds and   *)
(* advances in steps of TickStep.                                          *)
(***************************************************************************)
EXTENDS Integers, Sequences, FiniteSets, TLC

\* ------------------------------------------------------------------------
\* Bounds of the model
\* ------------------------------------------------------------------------
MaxTicks == 3
MaxChunks == 2
NumWorkers == 2
NumPorts == 2
MaxArrivals == 1

\* ------------------------------------------------------------------------
\* Program constants
\* ------------------------------------------------------------------------
max_retries == 3
retry_attempts == 3
timeout == 15
NoiseFloor == 100

\* the clock is read in steps of a third of the timeout, from StartTime on
TickStep == timeout \div 3
StartTime == 1

Workers == 1..NumWorkers
Ports == 1..NumPorts

\* ------------------------------------------------------------------------
\* Bytes and lines
\* ------------------------------------------------------------------------
Digits == {"0", "1", "2", "3", "4", "5", "6", "7", "8", "9"}
Whitespace == {" ", "CR", "LF"}
CRLF == <<"CR", "LF">>

DigitValue(c) ==
    CASE c = "0" -> 0 [] c = "1" -> 1 [] c = "2" -> 2 [] c = "3" -> 3
      [] c = "4" -> 4 [] c = "5" -> 5 [] c = "6" -> 6 [] c = "7" -> 7
      [] c = "8" -> 8 [] c = "9" -> 9

\* the frames the scale sends in this model
Frame93 == <<"S", "T", ",", "+", "0", "0", "0", "0", "0", "9", ".", "3", " ", " ", "g">>
Frame81 == <<"S", "T", ",", "+", "0", "0", "0", "0", "0", "8", ".", "1", " ", " ", "g">>
FrameNoise == <<"S", "T", ",", "+", "0", ".", "5", "0", " ", "g">>
FrameBig == <<"S", "T", ",", "+", "6", "6", "4", ".", "6", "6", " ", "g">>
FrameNoDot == <<"S", "T", ",", "+", "0", "0", "1", "2", "3", "g">>
NonAscii == <<"x80">>

\* a reading above 0xFFFFFFFF hundredths of a gram, and one with more digits
\* than a float holds
FrameOver32 == <<"S", "T", ",", "+", "9", "9", "9", "9", "9", "9", "9", "9", ".", "9", " ", "g">>
FloatMaxDigits == 309
FrameHuge == <<"S", "T", ",", "+">> \o [i \in 1..FloatMaxDigits |-> "9"] \o <<".", "0", " ", "g">>

\* the first bytes of a frame whose rest has not arrived yet
FramePartial == <<"S", "T", ",", "+", "0", "0">>

\* what one arrival can append to the port: a CRLF-terminated line or a
\* lone byte outside ASCII
Chunks ==
    {Frame93 \o CRLF, Frame81 \o CRLF, FrameNoise \o CRLF, FrameBig \o CRLF,
     FrameNoDot \o CRLF, NonAscii}

RECURSIVE Concat(_)
Concat(ss) == IF ss = <<>> THEN <<>> ELSE Head(ss) \o Concat(Tail(ss))

Batches == {Concat(cs) : cs \in UNION {[1..k -> Chunks] : k \in 1..MaxChunks}}

\* the arrivals of the specification of the data errors
DataChunks ==
    {Frame93 \o CRLF, FrameNoDot \o CRLF, FrameOver32 \o CRLF, FrameHuge \o CRLF, NonAscii,
     FramePartial}

DataBatches == {Concat(cs) : cs \in UNION {[1..k -> DataChunks] : k \in 1..MaxChunks}}

\* bytes.decode("ascii") succeeds
IsAscii(s) == \A i \in 1..Len(s) : s[i] # "x80"

\* str.split("\r\n")
RECURSIVE Split(_)
Split(s) ==
    IF \E i \in 1..Len(s) - 1 : s[i] = "CR" /\ s[i + 1] = "LF"
    THEN LET i == CHOOSE j \in 1..Len(s) - 1 :
                     /\ s[j] = "CR" /\ s[j + 1] = "LF"
                     /\ \A h \in 1..j - 1 : ~(s[h] = "CR" /\ s[h + 1] = "LF")
         IN <<SubSeq(s, 1, i - 1)>> \o Split(SubSeq(s, i + 2, Len(s)))
    ELSE <<s>>

\* str.strip()
RECURSIVE Strip(_)
Strip(s) ==
    IF s = <<>> THEN s
    ELSE IF Head(s) \in Whitespace THEN Strip(Tail(s))
    ELSE IF s[Len(s)] \in Whitespace THEN Strip(SubSeq(s, 1, Len(s) - 1))
    ELSE s

\* index of the first element at or after i that is not in the class
SkipClass(s, i, class) ==
    IF i > Len(s) THEN i
    ELSE CHOOSE j \in i..Len(s) + 1 :
             /\ j = Len(s) + 1 \/ s[j] \notin class
             /\ \A h \in i..j - 1 : s[h] \in class

\* re.match(r"^ST,\+(\d+\.\d+)\s+g$", s): the captured group, or <<>> when
\* the line does not match
Match(s) ==
    LET i1 == SkipClass(s, 5, Digits)
        i2 == SkipClass(s, i1 + 1, Digits)
        i3 == SkipClass(s, i2, Whitespace)
    IN IF /\ Len(s) >= 4
          /\ SubSeq(s, 1, 4) = <<"S", "T", ",", "+">>
          /\ i1 > 5 /\ i1 <= Len(s) /\ s[i1] = "."
          /\ i2 > i1 + 1
          /\ i3 > i2
          /\ i3 = Len(s) /\ s[i3] = "g"
       THEN SubSeq(s, 5, i2 - 1)
       ELSE <<>>

\* ------------------------------------------------------------------------
\* float(str) and int(weight_value * 100) in IEEE-754 binary64, on bit
\* strings: a float is [m |-> 53 bits, most significant first, e |-> the
\* exponent of m[1]], zero is the empty bit string
\* ------------------------------------------------------------------------
RECURSIVE IntBits(_)
IntBits(n) == IF n = 0 THEN <<>> ELSE Append(IntBits(n \div 2), n % 2)

RECURSIVE BitsToNat(_)
BitsToNat(bits) ==
    IF bits = <<>> THEN 0
    ELSE 2 * BitsToNat(SubSeq(bits, 1, Len(bits) - 1)) + bits[Len(bits)]

RECURSIVE DivBits(_, _, _, _, _)
\* long division r/d continued after the bits sig, up to `want` significant bits
DivBits(sig, e, r, d, want) ==
    IF Len(sig) >= want
    THEN [sig |-> SubSeq(sig, 1, want), e |-> e,
          sticky |-> (r # 0) \/ (\E i \in want + 1..Len(sig) : sig[i] = 1)]
    ELSE LET b == IF 2 * r >= d THEN 1 ELSE 0
             r2 == 2 * r - b * d
         IN IF sig = <<>> /\ b = 0 THEN DivBits(sig, e - 1, r2, d, want)
            ELSE DivBits(Append(sig, b), e, r2, d, want)

RECURSIVE IncBits(_)
IncBits(bits) ==
    IF bits = <<>> THEN <<1>>
    ELSE IF bits[Len(bits)] = 0 THEN Append(SubSeq(bits, 1, Len(bits) - 1), 1)
    ELSE Append(IncBits(SubSeq(bits, 1, Len(bits) - 1)), 0)

\* round 53 bits and a guard bit to nearest, ties to even
RoundNearestEven(sig, e, sticky) ==
    LET m == SubSeq(sig, 1, 53)
        up == sig[54] = 1 /\ (sticky \/ m[53] = 1)
        m2 == IF up THEN IncBits(m) ELSE m
    IN IF Len(m2) = 54 THEN [m |-> SubSeq(m2, 1, 53), e |-> e + 1]
       ELSE [m |-> m2, e |-> e]

\* the binary64 nearest to n/d
FloatDiv(n, d) ==
    IF n = 0 THEN [m |-> <<>>, e |-> 0]
    ELSE LET ib == IntBits(n \div d)
             q == DivBits(ib, Len(ib) - 1, n % d, d, 54)
         IN RoundNearestEven(q.sig, q.e, q.sticky)

RECURSIVE AddBits(_, _, _)
\* addition of bit strings, least significant bit first
AddBits(a, b, c) ==
    IF a = <<>> /\ b = <<>> THEN (IF c = 1 THEN <<1>> ELSE <<>>)
    ELSE LET x == IF a = <<>> THEN 0 ELSE Head(a)
             y == IF b = <<>> THEN 0 ELSE Head(b)
             s == x + y + c
         IN <<s % 2>> \o AddBits(IF a = <<>> THEN a ELSE Tail(a),
                                 IF b = <<>> THEN b ELSE Tail(b), s \div 2)

Rev(s) == [i \in 1..Len(s) |-> s[Len(s) + 1 - i]]
Zeros(k) == [i \in 1..k |-> 0]

\* x * 100 rounded to binary64 (100 = 64 + 32 + 4)
FloatMul100(x) ==
    IF x.m = <<>> THEN x
    ELSE LET l == Rev(x.m)
             p == Rev(AddBits(AddBits(Zeros(6) \o l, Zeros(5) \o l, 0),
                              Zeros(2) \o l, 0))
             sticky == \E i \in 55..Len(p) : p[i] = 1
         IN RoundNearestEven(SubSeq(p, 1, 54), x.e + (Len(p) - 53), sticky)

\* int(x) for x >= 0
FloatTrunc(x) ==
    IF x.m = <<>> \/ x.e < 0 THEN 0 ELSE BitsToNat(SubSeq(x.m, 1, x.e + 1))

RECURSIVE DigitsToNat(_)
DigitsToNat(ds) ==
    IF ds = <<>> THEN 0
    ELSE 10 * DigitsToNat(SubSeq(ds, 1, Len(ds) - 1)) + DigitValue(ds[Len(ds)])

RECURSIVE Pow10(_)
Pow10(k) == IF k = 0 THEN 1 ELSE 10 * Pow10(k - 1)

\* float(match.group(1)): the group is <digits>.<digits>
ParseFloat(group) ==
    LET dot == CHOOSE i \in 1..Len(group) : group[i] = "."
        frac == SubSeq(group, dot + 1, Len(group))
        d == Pow10(Len(frac))
    IN FloatDiv(DigitsToNat(SubSeq(group, 1, dot - 1)) * d + DigitsToNat(frac), d)

\* int(weight_value * 100)
TargetValue(group) == FloatTrunc(FloatMul100(ParseFloat(group)))

\* ------------------------------------------------------------------------
\* utility.split_32bit_to_16bit
\* ------------------------------------------------------------------------
\* value & 0xFFFF and value >> 16 on the bits of value, most significant first
AndFFFF(bits) ==
    IF Len(bits) <= 16 THEN bits ELSE SubSeq(bits, Len(bits) - 15, Len(bits))

ShiftRight16(bits) ==
    IF Len(bits) <= 16 THEN <<>> ELSE SubSeq(bits, 1, Len(bits) - 16)

\* the order announced by the docstring: [high_word, low_word]
SplitWordsHighFirst(bits) ==
    <<BitsToNat(AndFFFF(ShiftRight16(bits))), BitsToNat(AndFFFF(bits))>>

\* lines 44-47: low_word, high_word and the list returned
SplitWords(bits) ==
    <<BitsToNat(AndFFFF(bits)), BitsToNat(AndFFFF(ShiftRight16(bits)))>>

\* line 40: value > 0xFFFFFFFF, on the bits of value
Above32(bits) == \E i \in 1..(Len(bits) - 32) : bits[i] = 1

\* utility.split_32bit_to_16bit on an integer of the model
SplitValue(value) == SplitWords(IntBits(value))

\* the digits before the point, without the leading zeros
RECURSIVE StripZeros(_)
StripZeros(ds) == IF ds # <<>> /\ Head(ds) = "0" THEN StripZeros(Tail(ds)) ELSE ds

IntegerDigits(group) ==
    StripZeros(SubSeq(group, 1, (CHOOSE i \in 1..Len(group) : group[i] = ".") - 1))

\* weight_value * 100 is float infinity: the group stands for 10^308 or more
IsInfinite(group) == Len(IntegerDigits(group)) >= FloatMaxDigits

\* the check of utility.split_32bit_to_16bit (bitconvert.py lines 40-41) on
\* the float before truncation: int(x) > 0xFFFFFFFF
Above32Bits(x) == x.m # <<>> /\ x.e >= 32

\* ------------------------------------------------------------------------
\* The parse of one message in process_weight_data (lines 170-184):
\* "empty" and "nomatch" return False, "value" carries target_value;
\* "overflow" is a match for which int(weight_value * 100) raises
\* OverflowError, "range" one whose target_value the split rejects with
\* ValueError
\* ------------------------------------------------------------------------
ParseMessage(message) ==
    LET cleaned_data == Strip(message)
        group == Match(cleaned_data)
    IN IF cleaned_data = <<>> THEN [kind |-> "empty", value |-> 0]
       ELSE IF group = <<>> THEN [kind |-> "nomatch", value |-> 0]
       ELSE IF IsInfinite(group) THEN [kind |-> "overflow", value |-> 0]
       ELSE IF Above32Bits(FloatMul100(ParseFloat(group))) THEN [kind |-> "range", value |-> 0]
       ELSE [kind |-> "value", value |-> TargetValue(group)]

Range(f) == {f[i] : i \in DOMAIN f}

\* the parse and the split are evaluated once for the inputs of the model
SplitTable == [b \in {x \in Batches \cup DataBatches : IsAscii(x)} |-> Split(b)]
SplitBuffer(b) == IF b \in DOMAIN SplitTable THEN SplitTable[b] ELSE Split(b)

ParseTable == [m \in UNION {Range(SplitTable[b]) : b \in DOMAIN SplitTable} |-> ParseMessage(m)]
Parse(m) == IF m \in DOMAIN ParseTable THEN ParseTable[m] ELSE ParseMessage(m)

\* the split is evaluated once for the values these messages carry
WordsTable == [v \in {ParseTable[m].value : m \in DOMAIN ParseTable} |-> SplitValue(v)]
split_32bit_to_16bit(value) ==
    IF value \in DOMAIN WordsTable THEN WordsTable[value] ELSE SplitValue(value)

\* a reading that matches the grammar and passes the floor
IsValidReading(m) == Parse(m).kind = "value" /\ Parse(m).value >= NoiseFloor

\* ------------------------------------------------------------------------
\* State
\* ------------------------------------------------------------------------
VARIABLES
    now,               \* time.time()
    stop_event,        \* threading.Event shared by all threads
    serial_in,         \* per port: the bytes waiting in the serial driver
    state,             \* per port: the state dictionary
    plc_word,          \* per port: the two words at headdevice in the PLC
    plc_bit,           \* per port: the bit at bitunit in the PLC
    pc,                \* per worker: position in worker / smode_process_serial_data
    task,              \* per worker: the port of the task being processed
    messages,          \* per worker: the messages of the batch not yet processed
    target_value,      \* per worker: local of process_weight_data
    attempt,           \* per worker: loop variable of the retry loops
    data_in_progress,  \* per worker: local of smode_process_serial_data
    call,              \* per worker: record of the current call of process_weight_data
    cycle,             \* per worker: record of the current processing cycle
    before_reset,      \* per port: last_weight as the last timeout reset found it
    plc_healthy,       \* every call to the PLC returns and its write is stored
    port_status,       \* per port: serial_ports[port] is None, closed or open
    data_queue,        \* the tasks put by the monitor and not yet taken by a worker
    mon_pc,            \* position of monitor_serial_ports
    mon_port,          \* the port the loop over port_device_map is at
    enqueued,          \* per port: the tasks put during the current poll cycle
    sent,              \* the batches the scales have sent to the pool
    main_pc,           \* position of main (src/main.py)
    main_port,         \* the port the loops of main over the ports are at
    joined,            \* the worker threads main has joined
    connected,         \* the last result of check_connection
    reconnects,        \* the reconnection attempts of the last check_connection
    events,            \* what main has done since it left its loop, in order
    argument,          \* the argument of the function under evaluation
    returned           \* what the function returned, <<>> while it has not

vars == <<now, stop_event, serial_in, state, plc_word, plc_bit, pc, task, messages,
          target_value, attempt, data_in_progress, call, cycle, before_reset,
          plc_healthy, port_status, data_queue, mon_pc, mon_port, enqueued, sent,
          main_pc, main_port, joined, connected, reconnects, events, argument, returned>>

poolVars == <<plc_healthy, port_status, data_queue, mon_pc, mon_port, enqueued, sent>>

mainVars == <<main_pc, main_port, joined, connected, reconnects, events>>

funVars == <<argument, returned>>

portVars == <<serial_in, state, plc_word, plc_bit>>
localVars == <<messages, target_value, attempt, data_in_progress>>

NoCall == [message |-> <<>>, entry_weight |-> 0, ret |-> "none", words |-> 0, bits |-> 0]
NoCycle == [ran |-> FALSE, stale |-> FALSE, valid |-> FALSE, raised |-> FALSE,
            reset_words |-> 0, reset_bits |-> 0, error |-> "none", checks |-> 0]

\* outcomes of a call to the PLC link: the write is stored, the call returns
\* but the register does not hold the value, or the call raises
WriteOutcomes == IF plc_healthy THEN {"ok"} ELSE {"ok", "lost", "socket_error", "mc_error"}
ReadOutcomes == IF plc_healthy THEN {"ok"} ELSE {"ok", "socket_error", "mc_error"}
SerialOutcomes == {"ok", "socket_error"}

CycleInit ==
    /\ now = StartTime
    /\ stop_event = FALSE
    /\ serial_in = [p \in Ports |-> <<>>]
    /\ \E t \in {0, StartTime} :
          state = [p \in Ports |-> [buffer |-> <<>>, last_weight |-> 0, last_update_time |-> t]]
    /\ plc_word = [p \in Ports |-> <<0, 0>>]
    /\ plc_bit = [p \in Ports |-> 0]
    /\ pc = [w \in Workers |-> "idle"]
    /\ task = [w \in Workers |-> 1]
    /\ messages = [w \in Workers |-> <<>>]
    /\ target_value = [w \in Workers |-> 0]
    /\ attempt = [w \in Workers |-> 0]
    /\ data_in_progress = [w \in Workers |-> FALSE]
    /\ call = [w \in Workers |-> NoCall]
    /\ cycle = [w \in Workers |-> NoCycle]
    /\ before_reset = [p \in Ports |-> 0]

\* the monitor before its first poll cycle and an empty queue
PoolInit ==
    /\ data_queue = <<>>
    /\ mon_pc = "loop"
    /\ mon_port = 1
    /\ enqueued = [p \in Ports |-> 0]
    /\ sent = 0

\* main at the top of its loop, the threads started
MainInit ==
    /\ main_pc = "check"
    /\ main_port = 1
    /\ joined = 0
    /\ connected = TRUE
    /\ reconnects = 0
    /\ events = <<>>

\* no function is under evaluation
FunInit ==
    /\ argument = <<>>
    /\ returned = <<>>

\* one port served by one worker: every port is open and the PLC link may fail
Init ==
    /\ CycleInit
    /\ PoolInit
    /\ MainInit
    /\ FunInit
    /\ plc_healthy = FALSE
    /\ port_status = [p \in Ports |-> "open"]

\* ------------------------------------------------------------------------
\* Environment
\* ------------------------------------------------------------------------
\* time passes
Tick ==
    /\ now + TickStep <= StartTime + MaxTicks * TickStep
    /\ now' = now + TickStep
    /\ UNCHANGED <<stop_event, portVars, pc, task, localVars, call, cycle, before_reset>>

\* the scale sends a batch of bytes to a port whose driver buffer is empty
Arrive(p, b) ==
    /\ serial_in[p] = <<>>
    /\ serial_in' = [serial_in EXCEPT ![p] = b]
    /\ UNCHANGED <<now, stop_event, state, plc_word, plc_bit, pc, task, localVars, call, cycle, before_reset>>

\* main sets the stop signal (src/main.py line 275)
MainStop ==
    /\ ~stop_event
    /\ stop_event' = TRUE
    /\ UNCHANGED <<now, portVars, pc, task, localVars, call, cycle, before_reset>>

\* ------------------------------------------------------------------------
\* worker (src/utility/initialset.py) around smode_process_serial_data
\* ------------------------------------------------------------------------
\* the floor a factor of ten too low
IsNoiseLowFloor(v) == v < 10

\* line 183: if target_value < 100
IsNoise(v) == v < NoiseFloor

\* the time stamp taken after the duplicate check only, as in
\* _smode_process_serial_data (line 139)
StampedTimeOnForward(duplicate, last_update_time, current_time) ==
    IF duplicate THEN last_update_time ELSE current_time

\* line 187 stands before the duplicate check: the time stamp of a reading
\* that passed the floor
StampedTime(duplicate, last_update_time, current_time) == current_time

\* the comparison without the equality
IsDuplicateStrict(last_weight, v) == last_weight # 0 /\ v < last_weight

\* "or" in place of "and"
IsDuplicateOr(last_weight, v) == last_weight # 0 \/ v <= last_weight

\* line 190: state["last_weight"] != 0 and target_value <= state["last_weight"]
IsDuplicate(last_weight, v) == last_weight # 0 /\ v <= last_weight

\* one round too many
MoreAttemptsOffByOne(a) == a + 1 <= max_retries

\* lines 196 and 215: for attempt in range(max_retries)
MoreAttempts(a) == a + 1 < max_retries

\* line 201: batchread_wordunits(headdevice=headdevice, readsize=1)
ReadWords(words) == <<words[1]>>

\* the comparison with the written value left out
WordConfirmedAnyValue(read_back, target) == read_back # <<>>

\* line 202: read_back and int(read_back[0]) == target_value
WordConfirmed(read_back, target) == read_back # <<>> /\ read_back[1] = target

\* the comparison with 1 left out
BitConfirmedAnyValue(bit_status) == bit_status # <<>>

\* line 218: bit_status and int(bit_status[0]) == 1
BitConfirmed(bit_status) == bit_status # <<>> /\ bit_status[1] = 1

\* the guard with > in place of >=
TimedOutStrict(in_progress, last_update_time, current_time) ==
    /\ ~in_progress
    /\ last_update_time # 0
    /\ current_time - last_update_time > timeout

\* lines 246-250: the guard of reset_plc_if_timeout
TimedOut(in_progress, last_update_time, current_time) ==
    /\ ~in_progress
    /\ last_update_time # 0
    /\ current_time - last_update_time >= timeout

\* the failed reset only logged, as in process_serial_data (lines 160-161)
StopAfterResetFailureLogOnly(stop) == stop

\* lines 257-259 and 317-319: stop_event.set() in the handler of a failed
\* reset write
StopAfterResetFailure(stop) == TRUE

\* where the cycle continues after process_weight_data returned
AfterCall(rest) == IF rest = <<>> THEN "timeout" ELSE "line"

\* the locals of process_weight_data and of the message loop are gone when
\* an exception leaves them
DropLocals(w) ==
    /\ messages' = [messages EXCEPT ![w] = <<>>]
    /\ target_value' = [target_value EXCEPT ![w] = 0]
    /\ attempt' = [attempt EXCEPT ![w] = 0]

\* an exception that smode_process_serial_data catches (ValueError,
\* socket.error, lines 317-319): the stop signal is set and the cycle returns
\* the error only logged by the handler
CaughtBySmodeLogOnly(w) ==
    /\ pc' = [pc EXCEPT ![w] = "done"]
    /\ cycle' = [cycle EXCEPT ![w].raised = TRUE, ![w].error = "socket_error"]
    /\ UNCHANGED stop_event

CaughtBySmode(w) ==
    /\ stop_event' = TRUE
    /\ pc' = [pc EXCEPT ![w] = "done"]
    /\ cycle' = [cycle EXCEPT ![w].raised = TRUE, ![w].error = "socket_error"]

\* an exception that neither process_weight_data nor smode_process_serial_data
\* nor worker catches (MCProtocolError): the worker thread ends
Uncaught(w, error) ==
    /\ pc' = [pc EXCEPT ![w] = "dead"]
    /\ cycle' = [cycle EXCEPT ![w].raised = TRUE, ![w].error = error]
    /\ UNCHANGED stop_event

\* the loop that never looks at the stop signal
KeepRunningAlways(stop) == TRUE

\* initialset.py lines 29 and 43: while not stop_event.is_set()
KeepRunning(stop) == ~stop

\* while not stop_event.is_set(): ... data_queue.get(timeout=1)
WorkerGet(w, p) ==
    /\ pc[w] = "idle"
    /\ KeepRunning(stop_event)
    /\ pc' = [pc EXCEPT ![w] = "smode"]
    /\ task' = [task EXCEPT ![w] = p]
    /\ UNCHANGED <<now, stop_event, portVars, localVars, call, cycle, before_reset>>

\* the loop condition of worker fails
WorkerExit(w) ==
    /\ pc[w] = "idle"
    /\ ~KeepRunning(stop_event)
    /\ pc' = [pc EXCEPT ![w] = "exit"]
    /\ UNCHANGED <<now, stop_event, portVars, task, localVars, call, cycle, before_reset>>

\* smode_process_serial_data has returned: data_queue.task_done() and back
\* to the loop condition
WorkerDone(w) ==
    /\ pc[w] = "done"
    /\ pc' = [pc EXCEPT ![w] = "idle"]
    /\ data_in_progress' = [data_in_progress EXCEPT ![w] = FALSE]
    /\ call' = [call EXCEPT ![w] = NoCall]
    /\ cycle' = [cycle EXCEPT ![w] = NoCycle]
    /\ UNCHANGED <<now, stop_event, portVars, task, messages, target_value, attempt, before_reset>>

\* the bytes after the last line ending kept for the next cycle, and the
\* bytes that did not decode kept as well
BufferKeepsTail(buffer) ==
    IF IsAscii(buffer) THEN SplitBuffer(buffer)[Len(SplitBuffer(buffer))] ELSE buffer

\* lines 300 and 310: state["buffer"] = b"" after the split and after a
\* failed decode
BufferAfterRead(buffer) == <<>>

\* the cycle that does not look at the stop signal
ReturnsAtOnceNever(stop) == FALSE

\* lines 287-288: if stop_event.is_set(): return
ReturnsAtOnce(stop) == stop

\* smode_process_serial_data lines 287-310: the stop check, the serial read,
\* the decode and the split
SmodeBegin(w) ==
    LET p == task[w]
        buffer == state[p].buffer \o serial_in[p]
    IN
    /\ pc[w] = "smode"
    /\ IF ReturnsAtOnce(stop_event)
       THEN /\ pc' = [pc EXCEPT ![w] = "done"]
            /\ UNCHANGED <<stop_event, portVars, messages, cycle>>
       ELSE \E outcome \in SerialOutcomes :
            IF outcome = "socket_error"
            THEN /\ CaughtBySmode(w)
                 /\ UNCHANGED <<portVars, messages>>
            ELSE /\ cycle' = [cycle EXCEPT ![w].ran = TRUE,
                                           ![w].stale =
                                               /\ state[p].last_update_time # 0
                                               /\ now - state[p].last_update_time >= timeout]
                 /\ IF serial_in[p] = <<>>
                    THEN /\ pc' = [pc EXCEPT ![w] = "timeout"]
                         /\ UNCHANGED <<portVars, messages>>
                    ELSE /\ serial_in' = [serial_in EXCEPT ![p] = <<>>]
                         /\ state' = [state EXCEPT ![p].buffer = BufferAfterRead(buffer)]
                         /\ IF IsAscii(buffer)
                            THEN /\ messages' = [messages EXCEPT ![w] = SplitBuffer(buffer)]
                                 /\ pc' = [pc EXCEPT ![w] = "line"]
                            ELSE /\ pc' = [pc EXCEPT ![w] = "timeout"]
                                 /\ UNCHANGED messages
                         /\ UNCHANGED <<plc_word, plc_bit>>
                 /\ UNCHANGED stop_event
    /\ UNCHANGED <<now, task, target_value, attempt, data_in_progress, call, before_reset>>

\* the handler that lets every exception of the body leave the call
CaughtByProcessNothing(error) == FALSE

\* process_weight_data line 233: except ValueError
CaughtByProcess(error) == error = "ValueError"

\* process_weight_data lines 170-193: parse, floor, time stamp and debounce
ProcessLine(w) ==
    LET p == task[w]
        message == Head(messages[w])
        rest == Tail(messages[w])
        parsed == Parse(message)
        entry == [message |-> message, entry_weight |-> state[p].last_weight,
                  ret |-> "running", words |-> 0, bits |-> 0]
    IN
    /\ pc[w] = "line"
    /\ CASE parsed.kind = "overflow" ->
                \* line 180: int() of float infinity raises OverflowError, which
                \* is no ValueError: lines 234, 317 and worker let it pass
                /\ Uncaught(w, "OverflowError")
                /\ DropLocals(w)
                /\ call' = [call EXCEPT ![w] = [entry EXCEPT !.ret = "raised"]]
                /\ UNCHANGED state
         [] parsed.kind = "range" ->
                \* line 197: the split raises ValueError, line 234 returns False
                /\ state' = [state EXCEPT ![p].last_update_time = StampedTime(FALSE, @, now)]
                /\ IF CaughtByProcess("ValueError")
                   THEN /\ messages' = [messages EXCEPT ![w] = rest]
                        /\ cycle' = [cycle EXCEPT ![w].valid = TRUE]
                        /\ call' = [call EXCEPT ![w] = [entry EXCEPT !.ret = "False"]]
                        /\ pc' = [pc EXCEPT ![w] = AfterCall(rest)]
                        /\ UNCHANGED <<stop_event, target_value, attempt>>
                   ELSE /\ CaughtBySmode(w)
                        /\ DropLocals(w)
                        /\ call' = [call EXCEPT ![w] = [entry EXCEPT !.ret = "raised"]]
         [] OTHER ->
                /\ UNCHANGED stop_event
                /\ messages' = [messages EXCEPT ![w] = rest]
                /\ IF parsed.kind # "value" \/ IsNoise(parsed.value)
                   THEN /\ call' = [call EXCEPT ![w] = [entry EXCEPT !.ret = "False"]]
                        /\ pc' = [pc EXCEPT ![w] = AfterCall(rest)]
                        /\ UNCHANGED <<state, target_value, attempt, cycle>>
                   ELSE /\ state' = [state EXCEPT ![p].last_update_time =
                                   StampedTime(IsDuplicate(state[p].last_weight, parsed.value),
                                               @, now)]
                        /\ cycle' = [cycle EXCEPT ![w].valid = TRUE]
                        /\ IF IsDuplicate(state[p].last_weight, parsed.value)
                           THEN /\ call' = [call EXCEPT ![w] = [entry EXCEPT !.ret = "False"]]
                                /\ pc' = [pc EXCEPT ![w] = AfterCall(rest)]
                                /\ UNCHANGED <<target_value, attempt>>
                           ELSE /\ call' = [call EXCEPT ![w] = entry]
                                /\ pc' = [pc EXCEPT ![w] = "word_write"]
                                /\ target_value' = [target_value EXCEPT ![w] = parsed.value]
                                /\ attempt' = [attempt EXCEPT ![w] = 0]
    /\ UNCHANGED <<now, serial_in, plc_word, plc_bit, task, data_in_progress, before_reset>>

\* a write to the PLC link inside process_weight_data: the registers after
\* the call are `written` when the PLC stores the value
ForwardWrite(w, next, stored) ==
    \E outcome \in WriteOutcomes :
        CASE outcome = "ok" ->
                /\ stored
                /\ pc' = [pc EXCEPT ![w] = next]
                /\ UNCHANGED <<stop_event, cycle, localVars>>
          [] outcome = "lost" ->
                /\ pc' = [pc EXCEPT ![w] = next]
                /\ UNCHANGED <<stop_event, plc_word, plc_bit, cycle, localVars>>
          [] outcome = "socket_error" ->
                /\ CaughtBySmode(w)
                /\ DropLocals(w)
                /\ UNCHANGED <<plc_word, plc_bit, data_in_progress>>
          [] outcome = "mc_error" ->
                /\ Uncaught(w, "mc_error")
                /\ DropLocals(w)
                /\ UNCHANGED <<plc_word, plc_bit, data_in_progress>>

\* lines 197-199: batchwrite_wordunits(headdevice, split_32bit_to_16bit(target_value))
WordWrite(w) ==
    LET p == task[w]
        converted_values == split_32bit_to_16bit(target_value[w])
    IN
    /\ pc[w] = "word_write"
    /\ ForwardWrite(w, "word_read",
                    /\ plc_word' = [plc_word EXCEPT ![p] = converted_values]
                    /\ UNCHANGED plc_bit)
    /\ call' = [call EXCEPT ![w].words = @ + 1,
                            ![w].ret = IF pc'[w] \in {"done", "dead"} THEN "raised" ELSE @]
    /\ UNCHANGED <<now, serial_in, state, task, before_reset>>

\* line 216: batchwrite_bitunits(bitunit, [1])
BitWrite(w) ==
    LET p == task[w] IN
    /\ pc[w] = "bit_write"
    /\ ForwardWrite(w, "bit_read",
                    /\ plc_bit' = [plc_bit EXCEPT ![p] = 1]
                    /\ UNCHANGED plc_word)
    /\ call' = [call EXCEPT ![w].bits = @ + 1,
                            ![w].ret = IF pc'[w] \in {"done", "dead"} THEN "raised" ELSE @]
    /\ UNCHANGED <<now, serial_in, state, task, before_reset>>

\* a read-back inside process_weight_data and the retry loop around it
\* (lines 196-212 and 215-226): break when confirmed, go round again, or
\* return False when the loop ends without break
ReadBack(w, confirmed, onBreak, onRetry) ==
    \E outcome \in ReadOutcomes :
        CASE outcome = "ok" ->
                /\ IF confirmed
                   THEN /\ pc' = [pc EXCEPT ![w] = onBreak]
                        /\ attempt' = [attempt EXCEPT ![w] = 0]
                        /\ UNCHANGED <<call, target_value>>
                   ELSE IF MoreAttempts(attempt[w])
                   THEN /\ pc' = [pc EXCEPT ![w] = onRetry]
                        /\ attempt' = [attempt EXCEPT ![w] = @ + 1]
                        /\ UNCHANGED <<call, target_value>>
                   ELSE /\ pc' = [pc EXCEPT ![w] = AfterCall(messages[w])]
                        /\ call' = [call EXCEPT ![w].ret = "False"]
                        /\ attempt' = [attempt EXCEPT ![w] = 0]
                        /\ target_value' = [target_value EXCEPT ![w] = 0]
                /\ UNCHANGED <<stop_event, cycle, messages>>
          [] outcome = "socket_error" ->
                /\ CaughtBySmode(w)
                /\ DropLocals(w)
                /\ call' = [call EXCEPT ![w].ret = "raised"]
          [] outcome = "mc_error" ->
                /\ Uncaught(w, "mc_error")
                /\ DropLocals(w)
                /\ call' = [call EXCEPT ![w].ret = "raised"]

\* lines 201-212: batchread_wordunits(headdevice, readsize=1) and the comparison
WordRead(w) ==
    LET p == task[w]
        read_back == ReadWords(plc_word[p])
    IN
    /\ pc[w] = "word_read"
    /\ ReadBack(w, WordConfirmed(read_back, target_value[w]), "bit_write", "word_write")
    /\ UNCHANGED <<now, portVars, task, data_in_progress, before_reset>>

\* lines 217-226: batchread_bitunits(bitunit, readsize=1) and the comparison
BitRead(w) ==
    LET p == task[w]
        bit_status == <<plc_bit[p]>>
    IN
    /\ pc[w] = "bit_read"
    /\ ReadBack(w, BitConfirmed(bit_status), "commit", "bit_write")
    /\ UNCHANGED <<now, portVars, task, data_in_progress, before_reset>>

\* lines 229-232 and 303-306: the state update, return True, and the flag
\* of the caller
Commit(w) ==
    LET p == task[w] IN
    /\ pc[w] = "commit"
    /\ state' = [state EXCEPT ![p].last_weight = target_value[w]]
    /\ call' = [call EXCEPT ![w].ret = "True"]
    /\ data_in_progress' = [data_in_progress EXCEPT ![w] = TRUE]
    /\ pc' = [pc EXCEPT ![w] = AfterCall(messages[w])]
    /\ target_value' = [target_value EXCEPT ![w] = 0]
    /\ UNCHANGED <<now, stop_event, serial_in, plc_word, plc_bit, task, messages,
                   attempt, cycle, before_reset>>

\* reset_plc_if_timeout lines 243-250: the guard; when it is false the cycle
\* ends (line 315)
TimeoutCheck(w) ==
    LET p == task[w]
        current_time == now
    IN
    /\ pc[w] = "timeout"
    /\ pc' = [pc EXCEPT ![w] =
                 IF TimedOut(data_in_progress[w], state[p].last_update_time, current_time)
                 THEN "reset_word" ELSE "done"]
    /\ cycle' = [cycle EXCEPT ![w].checks = @ + 1]
    /\ UNCHANGED <<now, stop_event, portVars, task, localVars, call, before_reset>>

\* line 252: batchwrite_wordunits(headdevice, [0, 0])
ResetWord(w) ==
    LET p == task[w] IN
    /\ pc[w] = "reset_word"
    /\ \E outcome \in WriteOutcomes :
        CASE outcome \in {"ok", "lost"} ->
                /\ plc_word' = [plc_word EXCEPT ![p] = IF outcome = "ok" THEN <<0, 0>> ELSE @]
                /\ pc' = [pc EXCEPT ![w] = "reset_bit"]
                /\ cycle' = [cycle EXCEPT ![w].reset_words = @ + 1]
                /\ UNCHANGED stop_event
          [] outcome \in {"socket_error", "mc_error"} ->
                \* lines 257-259 and 317-319: both handlers set the stop signal
                /\ stop_event' = StopAfterResetFailure(stop_event)
                /\ pc' = [pc EXCEPT ![w] = "done"]
                /\ cycle' = [cycle EXCEPT ![w].raised = TRUE, ![w].error = outcome,
                                          ![w].reset_words = @ + 1]
                /\ UNCHANGED plc_word
    /\ UNCHANGED <<now, serial_in, state, plc_bit, task, localVars, call, before_reset>>

\* the reset that forgets the time and keeps the weight
StateAfterResetKeepsWeight(s) == [s EXCEPT !.last_update_time = 0]

\* lines 255-256: last_update_time = 0 and last_weight = 0
StateAfterReset(s) == [s EXCEPT !.last_update_time = 0, !.last_weight = 0]

\* lines 253-256: batchwrite_bitunits(bitunit, [0]) and the state reset
ResetBit(w) ==
    LET p == task[w] IN
    /\ pc[w] = "reset_bit"
    /\ \E outcome \in WriteOutcomes :
        CASE outcome \in {"ok", "lost"} ->
                /\ plc_bit' = [plc_bit EXCEPT ![p] = IF outcome = "ok" THEN 0 ELSE @]
                /\ state' = [state EXCEPT ![p] = StateAfterReset(@)]
                /\ before_reset' = [before_reset EXCEPT ![p] = state[p].last_weight]
                /\ pc' = [pc EXCEPT ![w] = "done"]
                /\ cycle' = [cycle EXCEPT ![w].reset_bits = @ + 1]
                /\ UNCHANGED stop_event
          [] outcome \in {"socket_error", "mc_error"} ->
                /\ stop_event' = StopAfterResetFailure(stop_event)
                /\ pc' = [pc EXCEPT ![w] = "done"]
                /\ cycle' = [cycle EXCEPT ![w].raised = TRUE, ![w].error = outcome,
                                          ![w].reset_bits = @ + 1]
                /\ UNCHANGED <<plc_bit, state, before_reset>>
    /\ UNCHANGED <<now, serial_in, plc_word, task, localVars, call>>

\* the steps of one worker
WorkerStep(w) ==
    \/ WorkerExit(w)
    \/ WorkerDone(w)
    \/ SmodeBegin(w)
    \/ ProcessLine(w)
    \/ WordWrite(w)
    \/ WordRead(w)
    \/ BitWrite(w)
    \/ BitRead(w)
    \/ Commit(w)
    \/ TimeoutCheck(w)
    \/ ResetWord(w)
    \/ ResetBit(w)

\* ------------------------------------------------------------------------
\* One port served by one worker
\* ------------------------------------------------------------------------
Next ==
    \/ Tick /\ UNCHANGED <<poolVars, mainVars>> /\ UNCHANGED funVars
    \/ MainStop /\ UNCHANGED <<poolVars, mainVars>> /\ UNCHANGED funVars
    \* bytes that arrive during a cycle are read by a later cycle: they are
    \* let in while the worker waits for its next task
    \/ pc[1] = "idle" /\ serial_in[1] = <<>> /\ \E b \in Batches : Arrive(1, b) /\ UNCHANGED <<poolVars, mainVars>> /\ UNCHANGED funVars
    \/ WorkerGet(1, 1) /\ UNCHANGED <<poolVars, mainVars>> /\ UNCHANGED funVars
    \/ WorkerStep(1) /\ UNCHANGED <<poolVars, mainVars>> /\ UNCHANGED funVars

Spec == Init /\ [][Next]_vars

\* ------------------------------------------------------------------------
\* monitor_serial_ports and the pool of workers on the shared queue
\* (src/utility/initialset.py)
\* ------------------------------------------------------------------------
cycleVars == <<now, stop_event, serial_in, state, plc_word, plc_bit, pc, task, messages,
               target_value, attempt, data_in_progress, call, cycle, before_reset>>

\* the queue of the model holds at most MaxQueue tasks: the monitor starts a
\* poll cycle when the queue has room for a task of every port
MaxQueue == NumPorts + 1

\* the capacity of a bounded task queue
QueueCapacity == 1

\* the readings the scale sends to the pool
PoolBatches == {Frame93 \o CRLF, FrameNoise \o CRLF}

\* the tuple with the state of the first port
TaskOfFirstState(p) == [ser |-> p, headdevice |-> p, bitunit |-> p, state |-> 1]

\* line 33: (ser, headdevice, bitunit, states[port])
TaskOf(p) == [ser |-> p, headdevice |-> p, bitunit |-> p, state |-> p]

\* line 32: ser and ser.is_open and ser.in_waiting > 0
HasData(p) == port_status[p] = "open" /\ serial_in[p] # <<>>

\* line 28: the loop condition of the monitor, and the start of the loop over
\* the ports
MonitorLoop ==
    /\ mon_pc = "loop"
    /\ IF KeepRunning(stop_event)
       THEN /\ Len(data_queue) + NumPorts <= MaxQueue
            /\ mon_pc' = "poll"
            /\ mon_port' = 1
            /\ enqueued' = [p \in Ports |-> 0]
       ELSE /\ mon_pc' = "exit"
            /\ UNCHANGED <<mon_port, enqueued>>
    /\ UNCHANGED <<cycleVars, plc_healthy, port_status, data_queue, sent>>

\* lines 30-37: one port of the poll cycle; after the last port the monitor
\* sleeps and returns to the loop condition; an error of the serial driver
\* sets the stop signal and ends the monitor
MonitorPoll ==
    LET p == mon_port IN
    /\ mon_pc = "poll"
    /\ \E outcome \in (IF port_status[p] = "open" THEN SerialOutcomes ELSE {"ok"}) :
          IF outcome = "socket_error"
          THEN /\ stop_event' = TRUE
               /\ mon_pc' = "exit"
               /\ UNCHANGED <<mon_port, data_queue, enqueued>>
          ELSE /\ IF HasData(p)
                  THEN /\ data_queue' = Append(data_queue, TaskOf(p))
                       /\ enqueued' = [enqueued EXCEPT ![p] = @ + 1]
                  ELSE UNCHANGED <<data_queue, enqueued>>
               /\ IF p < NumPorts
                  THEN /\ mon_port' = p + 1
                       /\ UNCHANGED mon_pc
                  ELSE /\ mon_pc' = "loop"
                       /\ UNCHANGED mon_port
               /\ UNCHANGED stop_event
    /\ UNCHANGED <<now, serial_in, state, plc_word, plc_bit, pc, task, messages,
                   target_value, attempt, data_in_progress, call, cycle, before_reset,
                   plc_healthy, port_status, sent>>

\* line 45: data_queue.get(timeout=1) returns the oldest task
WorkerDequeue(w) ==
    /\ data_queue # <<>>
    /\ WorkerGet(w, Head(data_queue).state)
    /\ data_queue' = Tail(data_queue)
    /\ UNCHANGED <<plc_healthy, port_status, mon_pc, mon_port, enqueued, sent>>

\* the scale sends a reading to an open port
PoolArrive(p) ==
    /\ port_status[p] = "open"
    /\ serial_in[p] = <<>>
    /\ sent < MaxArrivals
    /\ \E b \in PoolBatches : Arrive(p, b)
    /\ sent' = sent + 1
    /\ UNCHANGED <<plc_healthy, port_status, data_queue, mon_pc, mon_port, enqueued>>

PoolNext ==
    \/ Tick /\ UNCHANGED <<poolVars, mainVars>> /\ UNCHANGED funVars
    \/ MainStop /\ UNCHANGED <<poolVars, mainVars>> /\ UNCHANGED funVars
    \/ \E p \in Ports : PoolArrive(p) /\ UNCHANGED mainVars /\ UNCHANGED funVars
    \/ MonitorLoop /\ UNCHANGED mainVars /\ UNCHANGED funVars
    \/ MonitorPoll /\ UNCHANGED mainVars /\ UNCHANGED funVars
    \/ \E w \in Workers : WorkerDequeue(w) /\ UNCHANGED mainVars /\ UNCHANGED funVars
    \/ \E w \in Workers : WorkerStep(w) /\ UNCHANGED <<poolVars, mainVars>> /\ UNCHANGED funVars

\* serial_ports holds None, a closed or an open port for every name; the PLC
\* link is healthy
PoolStart ==
    /\ CycleInit
    /\ PoolInit
    /\ MainInit
    /\ FunInit
    /\ plc_healthy = TRUE
    /\ port_status \in {f \in [Ports -> {"none", "closed", "open"}] : f[1] = "open"}
    /\ \A p \in Ports : state[p].last_update_time = 0

PoolSpec == PoolStart /\ [][PoolNext]_vars

\* every thread that can take a step eventually takes one, and time passes
PoolFairSpec ==
    /\ PoolSpec
    /\ WF_vars(Tick /\ UNCHANGED <<poolVars, mainVars>> /\ UNCHANGED funVars)
    /\ WF_vars(MonitorLoop /\ UNCHANGED mainVars /\ UNCHANGED funVars)
    /\ WF_vars(MonitorPoll /\ UNCHANGED mainVars /\ UNCHANGED funVars)
    /\ \A w \in Workers : WF_vars(WorkerDequeue(w) /\ UNCHANGED mainVars /\ UNCHANGED funVars)
    /\ \A w \in Workers : WF_vars(WorkerStep(w) /\ UNCHANGED <<poolVars, mainVars>> /\ UNCHANGED funVars)

\* ------------------------------------------------------------------------
\* main with its watchdog check, its poll of the ports, its worker threads
\* and its shutdown (src/main.py)
\* ------------------------------------------------------------------------
\* ping_host (lines 59-73) returns True or False: it catches every exception
PingResults == {"True", "False"}

\* check_connection (lines 75-98): what it returns for a result of ping_host,
\* with the number of reconnection attempts made; the reconnection loop
\* stands in the handler of an exception of ping_host and ends with
\* sys.exit(1)
check_connection(ping) ==
    CASE ping = "True" -> {[result |-> "True", attempts |-> 0]}
      [] ping = "False" -> {[result |-> "False", attempts |-> 0]}
      [] OTHER -> {[result |-> "True", attempts |-> k] : k \in 1..retry_attempts}
                      \cup {[result |-> "exit", attempts |-> retry_attempts]}

\* the loop that goes on polling after a failed check
AfterCheckKeepsPolling(result) == "poll"

\* lines 256-258: break when check_connection is false
AfterCheck(result) == IF result = "True" THEN "poll" ELSE "finally"

\* line 267: (ser, headdevice, bitunit)
OldTaskOf(p) == [ser |-> p, headdevice |-> p, bitunit |-> p]

\* lines 255-258: the watchdog check at the top of the loop
MainCheck ==
    /\ main_pc = "check"
    /\ \E ping \in PingResults : \E r \in check_connection(ping) :
          /\ r.result = "True" => Len(data_queue) + NumPorts <= MaxQueue
          /\ connected' = (r.result = "True")
          /\ reconnects' = r.attempts
          /\ main_pc' = AfterCheck(r.result)
    /\ main_port' = 1
    /\ UNCHANGED <<cycleVars, poolVars, joined, events>>

\* lines 260-269: one port of the loop over the ports; an exception of the
\* serial driver ends the loop (lines 271-273)
MainPoll ==
    LET p == main_port IN
    /\ main_pc = "poll"
    /\ \E outcome \in (IF port_status[p] = "open" THEN SerialOutcomes ELSE {"ok"}) :
          IF outcome = "socket_error"
          THEN /\ main_pc' = "finally"
               /\ UNCHANGED <<main_port, stop_event, data_queue>>
          ELSE /\ IF port_status[p] # "none" /\ serial_in[p] # <<>>
                  THEN /\ stop_event' = FALSE
                       /\ data_queue' = Append(data_queue, OldTaskOf(p))
                  ELSE UNCHANGED <<stop_event, data_queue>>
               /\ IF p < NumPorts
                  THEN /\ main_port' = p + 1
                       /\ UNCHANGED main_pc
                  ELSE /\ main_pc' = "check"
                       /\ UNCHANGED main_port
    /\ UNCHANGED <<now, serial_in, state, plc_word, plc_bit, pc, task, messages,
                   target_value, attempt, data_in_progress, call, cycle, before_reset,
                   plc_healthy, port_status, mon_pc, mon_port, enqueued, sent,
                   joined, connected, reconnects, events>>

\* line 275: stop_event.set()
MainFinally ==
    /\ main_pc = "finally"
    /\ stop_event' = TRUE
    /\ events' = Append(events, <<"set", 0>>)
    /\ main_pc' = "join"
    /\ joined' = 0
    /\ UNCHANGED <<now, serial_in, state, plc_word, plc_bit, pc, task, messages,
                   target_value, attempt, data_in_progress, call, cycle, before_reset,
                   poolVars, main_port, connected, reconnects>>

\* lines 276-277: thread.join() returns when the thread has ended
MainJoin ==
    /\ main_pc = "join"
    /\ pc[joined + 1] \in {"exit", "dead"}
    /\ joined' = joined + 1
    /\ events' = Append(events, <<"join", joined + 1>>)
    /\ IF joined + 1 = NumWorkers
       THEN main_pc' = "close" /\ main_port' = 1
       ELSE UNCHANGED <<main_pc, main_port>>
    /\ UNCHANGED <<cycleVars, poolVars, connected, reconnects>>

\* lines 278-280: ser.close() for every port that is not None
MainClose ==
    LET p == main_port IN
    /\ main_pc = "close"
    /\ IF port_status[p] # "none"
       THEN /\ port_status' = [port_status EXCEPT ![p] = "closed"]
            /\ events' = Append(events, <<"close", p>>)
       ELSE UNCHANGED <<port_status, events>>
    /\ IF p < NumPorts
       THEN main_port' = p + 1 /\ UNCHANGED main_pc
       ELSE main_pc' = "plc_close" /\ UNCHANGED main_port
    /\ UNCHANGED <<cycleVars, plc_healthy, data_queue, mon_pc, mon_port, enqueued, sent,
                   joined, connected, reconnects>>

\* line 282: pymc3e.close()
MainClosePlc ==
    /\ main_pc = "plc_close"
    /\ events' = Append(events, <<"plc_close", 0>>)
    /\ main_pc' = "exit"
    /\ UNCHANGED <<cycleVars, poolVars, main_port, joined, connected, reconnects>>

\* line 284: sys.exit(1)
MainExit ==
    /\ main_pc = "exit"
    /\ events' = Append(events, <<"exit", 1>>)
    /\ main_pc' = "exited"
    /\ UNCHANGED <<cycleVars, poolVars, main_port, joined, connected, reconnects>>

\* lines 239-242: the worker of main takes a task and calls
\* smode_process_serial_data of src/main.py
OldWorkerGet(w) ==
    /\ data_queue # <<>>
    /\ WorkerGet(w, Head(data_queue).ser)
    /\ data_queue' = Tail(data_queue)
    /\ UNCHANGED <<plc_healthy, port_status, mon_pc, mon_port, enqueued, sent, mainVars>>

\* the handler that sets the stop signal, as the one of utility.worker does
StopAfterWorkerErrorSet(stop) == TRUE

\* lines 246-247: except Exception: sys.exit(1) ends the thread and leaves
\* the stop signal as it is
StopAfterWorkerError(stop) == stop

\* lines 172-230: the loop of smode_process_serial_data of src/main.py runs
\* until the stop signal is set; an iteration reads the bytes that wait on
\* the port; an exception ends the thread (lines 246-247)
OldSmodeLoop(w) ==
    LET p == task[w] IN
    /\ pc[w] = "smode"
    /\ IF KeepRunning(stop_event)
       THEN /\ serial_in[p] # <<>>
            /\ \E outcome \in SerialOutcomes :
                  IF outcome = "socket_error"
                  THEN /\ pc' = [pc EXCEPT ![w] = "exit"]
                       /\ stop_event' = StopAfterWorkerError(stop_event)
                       /\ UNCHANGED serial_in
                  ELSE /\ serial_in' = [serial_in EXCEPT ![p] = <<>>]
                       /\ UNCHANGED <<pc, stop_event>>
       ELSE /\ pc' = [pc EXCEPT ![w] = "idle"]
            /\ UNCHANGED <<serial_in, stop_event>>
    /\ UNCHANGED <<now, state, plc_word, plc_bit, task, messages,
                   target_value, attempt, data_in_progress, call, cycle, before_reset,
                   poolVars, mainVars>>

\* the scale sends a reading to an open port
MainArrive(p) ==
    /\ port_status[p] = "open"
    /\ serial_in[p] = <<>>
    /\ sent < MaxArrivals
    /\ Arrive(p, Frame93 \o CRLF)
    /\ sent' = sent + 1
    /\ UNCHANGED <<plc_healthy, port_status, data_queue, mon_pc, mon_port, enqueued, mainVars>>

MainNext ==
    \/ \E p \in Ports : MainArrive(p) /\ UNCHANGED funVars
    \/ MainCheck /\ UNCHANGED funVars
    \/ MainPoll /\ UNCHANGED funVars
    \/ MainFinally /\ UNCHANGED funVars
    \/ MainJoin /\ UNCHANGED funVars
    \/ MainClose /\ UNCHANGED funVars
    \/ MainClosePlc /\ UNCHANGED funVars
    \/ MainExit /\ UNCHANGED funVars
    \/ \E w \in Workers : OldWorkerGet(w) /\ UNCHANGED funVars
    \/ \E w \in Workers : WorkerExit(w) /\ UNCHANGED <<poolVars, mainVars>> /\ UNCHANGED funVars
    \/ \E w \in Workers : OldSmodeLoop(w) /\ UNCHANGED funVars

\* initialize_serial_connections has left None or an open port for every name
MainStart ==
    /\ CycleInit
    /\ PoolInit
    /\ MainInit
    /\ FunInit
    /\ plc_healthy = TRUE
    /\ port_status \in [Ports -> {"none", "open"}]
    /\ \A p \in Ports : state[p].last_update_time = 0

MainSpec == MainStart /\ [][MainNext]_vars

\* main and every worker thread that can take a step eventually take one
MainFairSpec ==
    /\ MainSpec
    /\ WF_vars((MainCheck \/ MainPoll \/ MainFinally \/ MainJoin \/ MainClose
                   \/ MainClosePlc \/ MainExit) /\ UNCHANGED funVars)
    /\ \A w \in Workers : WF_vars(OldWorkerGet(w) /\ UNCHANGED funVars)
    /\ \A w \in Workers : WF_vars(WorkerExit(w) /\ UNCHANGED <<poolVars, mainVars>> /\ UNCHANGED funVars)
    /\ \A w \in Workers : WF_vars(OldSmodeLoop(w) /\ UNCHANGED funVars)

\* the same worker fed with the lines that data errors are made of
DataNext ==
    \/ Tick /\ UNCHANGED <<poolVars, mainVars>> /\ UNCHANGED funVars
    \/ MainStop /\ UNCHANGED <<poolVars, mainVars>> /\ UNCHANGED funVars
    \/ pc[1] = "idle" /\ serial_in[1] = <<>> /\ \E b \in DataBatches : Arrive(1, b) /\ UNCHANGED <<poolVars, mainVars>> /\ UNCHANGED funVars
    \/ WorkerGet(1, 1) /\ UNCHANGED <<poolVars, mainVars>> /\ UNCHANGED funVars
    \/ WorkerStep(1) /\ UNCHANGED <<poolVars, mainVars>> /\ UNCHANGED funVars

DataSpec == Init /\ [][DataNext]_vars

\* ------------------------------------------------------------------------
\* Properties
\* ------------------------------------------------------------------------
\* worker w takes the step of ProcessLine
StartsCall(w) == pc[w] = "line" /\ messages'[w] # messages[w]

\* process_weight_data has just returned to the message loop
JustReturned(w) == pc[w] \in {"line", "timeout"} /\ call[w].ret \in {"True", "False"}

\* the value of the reading a call was made for
CallValue(w) == Parse(call[w].message).value
CallIsValid(w) == Parse(call[w].message).kind = "value" /\ CallValue(w) >= 100

\* C1: a reading that matches the grammar with value v >= 100 and arrives
\* while last_weight = w, w # 0 and v <= w, is not forwarded: no word write
\* and no bit write is issued, last_weight stays w and the call returns False.
C1_DuplicateNotForwarded ==
    [][\A w \in Workers :
        LET p == task[w]
            m == Head(messages[w])
        IN (/\ StartsCall(w)
            /\ Parse(m).kind = "value" /\ Parse(m).value >= 100
            /\ state[p].last_weight # 0
            /\ Parse(m).value <= state[p].last_weight)
           => (/\ plc_word' = plc_word /\ plc_bit' = plc_bit
               /\ call'[w].words = 0 /\ call'[w].bits = 0
               /\ pc'[w] \in {"line", "timeout"}
               /\ state'[p].last_weight = state[p].last_weight
               /\ call'[w].ret = "False"
               /\ data_in_progress'[w] = data_in_progress[w])]_vars

C1_Witness ==
    \E w \in Workers :
        /\ JustReturned(w) /\ CallIsValid(w)
        /\ call[w].entry_weight # 0 /\ CallValue(w) <= call[w].entry_weight
        /\ call[w].ret = "False" /\ call[w].words = 0
        /\ state[task[w]].last_weight = call[w].entry_weight

\* C2: a call for a valid reading v >= 100 made while last_weight = 0 or
\* v > last_weight returns True with last_weight = v, unless a retry loop
\* ran out of attempts without a confirming read-back; this holds as well
\* for the first reading after a timeout reset, also when it is smaller than
\* the weight held before the reset.
C2_AcceptedIsForwarded ==
    \A w \in Workers :
        (/\ JustReturned(w) /\ CallIsValid(w)
         /\ call[w].entry_weight = 0 \/ CallValue(w) > call[w].entry_weight)
        => IF call[w].ret = "True"
           THEN /\ state[task[w]].last_weight = CallValue(w)
                /\ data_in_progress[w]
                /\ call[w].words >= 1 /\ call[w].bits >= 1
           ELSE \/ call[w].words = max_retries /\ call[w].bits = 0
                   /\ ~WordConfirmed(ReadWords(plc_word[task[w]]), CallValue(w))
                \/ call[w].bits = max_retries /\ ~BitConfirmed(<<plc_bit[task[w]]>>)

C2_Witness ==
    \E w \in Workers :
        /\ JustReturned(w) /\ CallIsValid(w) /\ call[w].ret = "True"
        /\ call[w].entry_weight = 0
        /\ before_reset[task[w]] > CallValue(w)
        /\ state[task[w]].last_weight = CallValue(w)

C4_ForwardsStrictlyIncrease ==
    [][/\ \A w \in Workers :
            (call[w].ret = "running" /\ call'[w].ret = "True")
            => /\ state'[task[w]].last_weight > state[task[w]].last_weight
               /\ state'[task[w]].last_weight = CallValue(w)
       /\ \A p \in Ports :
            (state'[p].last_weight # state[p].last_weight)
            => \E w \in Workers :
                /\ task[w] = p
                /\ \/ call[w].ret = "running" /\ call'[w].ret = "True"
                   \/ pc[w] = "reset_bit" /\ state'[p].last_weight = 0]_vars

C4_Witness ==
    \E w \in Workers :
        /\ JustReturned(w) /\ call[w].ret = "True"
        /\ call[w].entry_weight = 810
        /\ state[task[w]].last_weight = 930

\* C5: a call whose word read-back never equals the value makes exactly
\* max_retries (3) word writes and no bit write, returns False and leaves
\* last_weight as it was; every call that reaches the write starts with
\* attempt 0 and no write counted.
C5_WordRetriesExhausted ==
    [][\A w \in Workers :
        LET p == task[w] IN
        /\ (call[w].ret = "running" /\ call'[w].ret = "False" /\ call[w].bits = 0)
           => /\ call'[w].words = max_retries
              /\ call'[w].bits = 0
              /\ plc_bit' = plc_bit
              /\ state'[p].last_weight = call[w].entry_weight
              /\ state[p].last_weight = call[w].entry_weight
              /\ data_in_progress'[w] = data_in_progress[w]
        /\ (StartsCall(w) /\ pc'[w] = "word_write")
           => attempt'[w] = 0 /\ call'[w].words = 0 /\ call'[w].bits = 0]_vars

C5_Witness ==
    \E w \in Workers :
        /\ JustReturned(w) /\ call[w].ret = "False"
        /\ call[w].words = 3 /\ call[w].bits = 0
        /\ state[task[w]].last_weight = call[w].entry_weight

\* C6: a call whose word write was confirmed and whose bit read-back never
\* is 1 makes max_retries bit writes, returns False and leaves last_weight
\* as it was, while headdevice still reads back as the value; last_weight
\* becomes a new weight only in a call with a confirmed word read-back and
\* a confirmed bit read-back.
C6_BitRetriesExhausted ==
    [][/\ \A w \in Workers :
            LET p == task[w] IN
            (call[w].ret = "running" /\ call'[w].ret = "False" /\ call[w].bits >= 1)
            => /\ call'[w].bits = max_retries
               /\ state'[p].last_weight = call[w].entry_weight
               /\ state[p].last_weight = call[w].entry_weight
               /\ ReadWords(plc_word'[p]) = <<CallValue(w)>>
               /\ data_in_progress'[w] = data_in_progress[w]
       /\ \A p \in Ports :
            (state'[p].last_weight \notin {state[p].last_weight, 0})
            => \E w \in Workers :
                /\ task[w] = p
                /\ call[w].ret = "running" /\ call'[w].ret = "True"
                /\ call[w].words >= 1 /\ call[w].bits >= 1
                /\ ReadWords(plc_word[p]) = <<state'[p].last_weight>>
                /\ plc_bit[p] = 1]_vars

C6_Witness ==
    \E w \in Workers :
        /\ JustReturned(w) /\ call[w].ret = "False" /\ call[w].bits = 3
        /\ plc_word[task[w]] = split_32bit_to_16bit(CallValue(w))
        /\ state[task[w]].last_weight = call[w].entry_weight
        /\ state[task[w]].last_weight # CallValue(w)

\* C7: when the PLC holds exactly the two words that were written, the
\* word read-back check succeeds on the first attempt, for every value,
\* also one of 65536 or more.
C7_FullValueReadBack ==
    [][\A w \in Workers :
        (/\ pc[w] = "word_read" /\ attempt[w] = 0
         /\ plc_word[task[w]] = split_32bit_to_16bit(target_value[w])
         /\ pc'[w] \notin {"word_read", "done", "dead"})
        => pc'[w] = "bit_write"]_vars

\* C8: every reading that matches the grammar with value >= 100 sets
\* last_update_time to the current time, forwarded or not; an empty line, a
\* line that does not match and a reading below 100 leave it unchanged, and
\* so does the write-verify that follows.
C8_ValidReadingStampsTime ==
    [][\A w \in Workers :
        LET p == task[w]
            m == Head(messages[w])
        IN
        /\ StartsCall(w)
           => state'[p].last_update_time =
                  IF Parse(m).kind = "value" /\ Parse(m).value >= 100
                  THEN now ELSE state[p].last_update_time
        /\ (pc[w] \in {"word_write", "word_read", "bit_write", "bit_read", "commit"})
           => state'[p].last_update_time = state[p].last_update_time]_vars

C8_Witness ==
    \E w \in Workers :
        /\ JustReturned(w) /\ CallIsValid(w) /\ call[w].ret = "False"
        /\ call[w].entry_weight # 0 /\ CallValue(w) <= call[w].entry_weight
        /\ now > StartTime
        /\ state[task[w]].last_update_time = now

\* C9: a reading with value below 100 is dropped whatever last_weight is:
\* no PLC write is issued and last_weight and last_update_time keep their
\* values.
C9_NoiseDropped ==
    [][\A w \in Workers :
        LET p == task[w]
            m == Head(messages[w])
        IN (StartsCall(w) /\ Parse(m).kind = "value" /\ Parse(m).value < 100)
           => (/\ plc_word' = plc_word /\ plc_bit' = plc_bit
               /\ call'[w].words = 0 /\ call'[w].bits = 0
               /\ call'[w].ret = "False"
               /\ pc'[w] \in {"line", "timeout"}
               /\ state' = state)]_vars

C9_Witness ==
    \E w \in Workers :
        /\ JustReturned(w) /\ call[w].message = FrameNoise /\ CallValue(w) = 50
        /\ call[w].entry_weight = 0 /\ call[w].ret = "False" /\ call[w].words = 0
        /\ state[task[w]].last_weight = 0

\* a cycle that passed the stop check, met no exception and has returned
CycleCompleted(w) == pc[w] = "done" /\ cycle[w].ran /\ ~cycle[w].raised

\* the timeout reset of the cycle has been carried out
ResetDone(w) ==
    /\ cycle[w].reset_words = 1 /\ cycle[w].reset_bits = 1
    /\ state[task[w]].last_weight = 0
    /\ state[task[w]].last_update_time = 0

C11_FailedResetStops ==
    [][\A w \in Workers :
        /\ (pc[w] \in {"reset_word", "reset_bit"} /\ cycle'[w].raised)
           => /\ stop_event'
              /\ state' = state
              /\ pc'[w] = "done"
        /\ (pc[w] = "reset_word" /\ cycle'[w].raised)
           => plc_bit' = plc_bit /\ cycle'[w].reset_bits = 0
        /\ (cycle'[w].reset_bits > cycle[w].reset_bits)
           => /\ pc[w] = "reset_bit"
              /\ cycle[w].reset_words = 1 /\ ~cycle[w].raised]_vars

C11_Witness ==
    \E w \in Workers :
        /\ pc[w] = "done" /\ cycle[w].raised /\ stop_event
        /\ cycle[w].reset_words = 1 /\ cycle[w].reset_bits = 0
        /\ state[task[w]].last_weight # 0
        /\ now - state[task[w]].last_update_time >= timeout

\* C20: a batch that fails the ASCII decode, a line that is not empty and
\* does not match, and a reading whose value fails the numeric conversion
\* leave the stop signal and last_weight as they are, and the cycle goes on
\* with the next line of the batch (or, after the last, with the timeout
\* check).
C20_DataErrorsNotFatal ==
    [][\A w \in Workers :
        LET p == task[w] IN
        /\ (/\ pc[w] = "smode" /\ serial_in'[p] # serial_in[p]
            /\ ~IsAscii(state[p].buffer \o serial_in[p]))
           => /\ stop_event' = stop_event
              /\ state'[p].last_weight = state[p].last_weight
              /\ pc'[w] = "timeout"
        /\ (/\ StartsCall(w)
            /\ Parse(Head(messages[w])).kind \in {"nomatch", "overflow", "range"})
           => /\ stop_event' = stop_event
              /\ state'[p].last_weight = state[p].last_weight
              /\ messages'[w] = Tail(messages[w])
              /\ pc'[w] = AfterCall(Tail(messages[w]))]_vars

\* worker w is inside smode_process_serial_data
InCycle(w) == pc[w] \notin {"idle", "done", "exit", "dead"}

\* the monitor takes the step of MonitorPoll for port p
PollsPort(p) == mon_pc = "poll" /\ mon_port = p /\ <<mon_pc, mon_port>>' # <<mon_pc, mon_port>>

\* the timeout has elapsed since the last update of port p
Stale(p) == state[p].last_update_time # 0 /\ now - state[p].last_update_time >= timeout

\* C12: with a healthy PLC link and no stop signal, a port whose bit is
\* active and whose last update is a timeout old is eventually reset: the bit
\* is deactivated.
C12_SilentPortIsReset ==
    \A p \in Ports : [](plc_bit[p] = 1 /\ Stale(p) => <>(plc_bit[p] = 0 \/ stop_event))

\* C13: no two workers are inside a processing cycle for the same port at the
\* same time.
C13_OneWorkerPerPort ==
    \A w1, w2 \in Workers :
        w1 # w2 /\ InCycle(w1) /\ InCycle(w2) => task[w1] # task[w2]

\* C14: a poll of the monitor that finds the queue full drops its task: the
\* queue does not grow.
C14_FullQueueDropsTask ==
    [][\A p \in Ports :
        PollsPort(p) /\ Len(data_queue) >= QueueCapacity
            => Len(data_queue') <= Len(data_queue)]_vars

\* C15: a poll of port p that returns puts exactly one task, made of p's own
\* serial object, devices and state, when the port exists, is open and has
\* bytes waiting, and puts nothing otherwise; nothing else puts a task, and
\* no port gets two tasks in one poll cycle.
C15_EnqueueIffBytesWaiting ==
    [][/\ \A p \in Ports :
            PollsPort(p) /\ mon_pc' # "exit"
                => data_queue' =
                       IF port_status[p] = "open" /\ serial_in[p] # <<>>
                       THEN Append(data_queue,
                                   [ser |-> p, headdevice |-> p, bitunit |-> p, state |-> p])
                       ELSE data_queue
       /\ Len(data_queue') > Len(data_queue) => \E p \in Ports : PollsPort(p)
       /\ \A p \in Ports : enqueued'[p] <= 1]_vars

\* C15 witness: the last port of the map has got its task in this poll cycle,
\* and another port has none
C15_Witness ==
    /\ enqueued[NumPorts] = 1
    /\ \E i \in 1..Len(data_queue) : data_queue[i].state = NumPorts
    /\ \E p \in Ports : port_status[p] = "open" /\ enqueued[p] = 0

\* main has recorded event e
Happened(e) == \E i \in 1..Len(events) : events[i] = e

\* the place of event e in what main has done
Place(e) == CHOOSE i \in 1..Len(events) : events[i] = e

\* how often main has recorded event e
Times(e) == Cardinality({i \in 1..Len(events) : events[i] = e})

\* C16: check_connection reports the connection lost only after it has made
\* all its reconnection attempts.
C16_ReconnectBeforeLoss ==
    [][connected /\ ~connected' => reconnects' = retry_attempts]_vars

\* C17: once check_connection has reported the PLC unreachable, main polls no
\* port, puts no task and makes no further check, and it ends with the stop
\* signal set and an exit status that is not zero.
C17_ConnectivityLossIsFatal ==
    /\ [][~connected => /\ main_pc' \notin {"check", "poll"}
                         /\ Len(data_queue') <= Len(data_queue)]_vars
    /\ [](~connected => <>(/\ main_pc = "exited"
                            /\ stop_event
                            /\ \E i \in 1..Len(events) :
                                   events[i][1] = "exit" /\ events[i][2] # 0))

\* C17 witness: main has exited after a failed check while a task was still
\* queued
C17_Witness ==
    /\ ~connected
    /\ main_pc = "exited"
    /\ data_queue # <<>>

\* C18: when main has exited it has set the stop signal, then joined every
\* worker, then flushed and closed every port it had opened exactly once,
\* then closed the PLC link, then exited with status 1; and no port and not
\* the PLC link is closed while a worker thread runs.
C18_ShutdownOrder ==
    /\ (\E p \in Ports : port_status[p] = "closed") \/ Happened(<<"plc_close", 0>>)
           => \A w \in Workers : pc[w] \in {"exit", "dead"}
    /\ main_pc = "exited"
           => /\ Times(<<"set", 0>>) = 1
              /\ \A w \in Workers :
                    /\ Times(<<"join", w>>) = 1
                    /\ Place(<<"set", 0>>) < Place(<<"join", w>>)
              /\ \A p \in Ports : port_status[p] # "none" =>
                    /\ Times(<<"flush", p>>) = 1
                    /\ Times(<<"close", p>>) = 1
                    /\ Place(<<"flush", p>>) < Place(<<"close", p>>)
                    /\ \A w \in Workers : Place(<<"join", w>>) < Place(<<"flush", p>>)
                    /\ Place(<<"close", p>>) < Place(<<"plc_close", 0>>)
              /\ Times(<<"plc_close", 0>>) = 1
              /\ events[Len(events)] = <<"exit", 1>>

\* C19: once the stop signal is set, every worker and the monitor leave
\* their loops: each worker thread ends (it returns from worker or an
\* exception ended it) and the monitor returns, whatever is left in the queue.
C19_StopTerminatesThreads ==
    stop_event ~> (/\ \A w \in Workers : pc[w] \in {"exit", "dead"}
                   /\ mon_pc = "exit")

\* C19 witness: a worker inside a cycle and a task in the queue when the stop
\* signal is set
C19_Witness ==
    /\ stop_event
    /\ data_queue # <<>>
    /\ \E w \in Workers : pc[w] \notin {"idle", "exit", "dead"}
    /\ \E w \in Workers : pc[w] = "idle"
    /\ mon_pc # "exit"

\* C21: in a cycle that has read bytes the buffer of the port is empty from
\* the read on, whether the decode failed or succeeded and whatever the lines
\* were: no byte is kept for the next cycle.
C21_BufferEmptyAfterRead ==
    \A w \in Workers :
        pc[w] \notin {"idle", "smode", "exit"} => state[task[w]].buffer = <<>>

\* C21 witness: the batch ended with the first bytes of a frame, which are
\* now the last message of the cycle
C21_Witness ==
    /\ pc[1] = "line"
    /\ messages[1] = <<FramePartial>>
    /\ state[1].buffer = <<>>

\* ------------------------------------------------------------------------
\* utility.split_32bit_to_16bit evaluated on its own: the values are bit
\* strings, most significant bit first, since they go up to 2^32 - 1
\* ------------------------------------------------------------------------
MaxSmallWord == 7

\* n on `width` bits
RECURSIVE FixedBits(_, _)
FixedBits(n, width) ==
    IF width = 0 THEN <<>> ELSE Append(FixedBits(n \div 2, width - 1), n % 2)

\* the 16-bit halves the values are made of: the smallest, the largest and
\* the two around the sign bit
SampleWords ==
    (0..MaxSmallWord) \cup ((65535 - MaxSmallWord)..65535) \cup {32767, 32768}

\* the values of [0, 2^32 - 1] made of two sampled halves, and 2^32
SplitInputs ==
    {FixedBits(h, 16) \o FixedBits(l, 16) : h \in SampleWords, l \in SampleWords}
        \cup {<<1>> \o FixedBits(0, 32)}

otherVars == <<cycleVars, poolVars, mainVars>>

SplitStart ==
    /\ CycleInit
    /\ PoolInit
    /\ MainInit
    /\ plc_healthy = TRUE
    /\ port_status = [p \in Ports |-> "open"]
    /\ \A p \in Ports : state[p].last_update_time = 0
    /\ argument \in SplitInputs
    /\ returned = <<>>

\* split_32bit_to_16bit(value): the range check, then the two words
SplitCall ==
    /\ returned = <<>>
    /\ returned' = IF Above32(argument) THEN <<"ValueError">> ELSE SplitWords(argument)
    /\ UNCHANGED <<argument, otherVars>>

SplitNext == SplitCall

SplitSpec == SplitStart /\ [][SplitNext]_vars

C23_NoAttemptAfterStop ==
    [][\A w \in Workers :
          (stop_event /\ call[w].ret = "running" /\ call[w].words >= 1) =>
              /\ call'[w].words <= call[w].words
              /\ call'[w].bits <= call[w].bits]_vars

\* ------------------------------------------------------------------------
\* the conversion of process_weight_data evaluated on its own, on the frames
\* ST,+<grams>.<two digits> g
\* ------------------------------------------------------------------------
MaxGrams == 2

DigitChar(d) ==
    CASE d = 0 -> "0" [] d = 1 -> "1" [] d = 2 -> "2" [] d = 3 -> "3"
      [] d = 4 -> "4" [] d = 5 -> "5" [] d = 6 -> "6" [] d = 7 -> "7"
      [] d = 8 -> "8" [] d = 9 -> "9"

\* str(n)
RECURSIVE NatDigits(_)
NatDigits(n) ==
    IF n < 10 THEN <<DigitChar(n)>> ELSE Append(NatDigits(n \div 10), DigitChar(n % 10))

ScaleFrame(grams, hundredths) ==
    <<"S", "T", ",", "+">> \o NatDigits(grams)
        \o <<".", DigitChar(hundredths \div 10), DigitChar(hundredths % 10), " ", "g">>

ScaleFrames == {ScaleFrame(g, h) : g \in 0..MaxGrams, h \in 0..99}

ScaleStart ==
    /\ CycleInit
    /\ PoolInit
    /\ MainInit
    /\ plc_healthy = TRUE
    /\ port_status = [p \in Ports |-> "open"]
    /\ \A p \in Ports : state[p].last_update_time = 0
    /\ argument \in ScaleFrames
    /\ returned = <<>>

\* lines 170-180: the message is stripped, matched and converted
ScaleCall ==
    /\ returned = <<>>
    /\ returned' = <<ParseMessage(argument)>>
    /\ UNCHANGED <<argument, otherVars>>

ScaleNext == ScaleCall

ScaleSpec == ScaleStart /\ [][ScaleNext]_vars

\* the digits of the frame read as a number of hundredths: D.DD times 100
Hundredths(frame) ==
    DigitsToNat(SelectSeq(Match(Strip(frame)), LAMBDA c : c \in Digits))

\* C24: for every well-formed frame ST,+D.DD g the scaled value is the
\* decimal value of the frame times 100, exactly.
C24_ScaledValueIsExact ==
    returned # <<>> =>
        /\ returned[1].kind = "value"
        /\ returned[1].value = Hundredths(argument)

\* C25: the timeout reset is performed only in a cycle in which no reading
\* was forwarded and confirmed, the time of the last valid reading is set and
\* at least 15 s old; when the guard is false the check writes nothing and
\* changes no state; when both reset writes return, last_weight and
\* last_update_time are 0.
C25_ResetOnlyWhenTimedOut ==
    [][\A w \in Workers :
          LET p == task[w]
              guard == /\ ~data_in_progress[w]
                       /\ state[p].last_update_time # 0
                       /\ now - state[p].last_update_time >= 15
          IN
          /\ (pc[w] = "timeout" /\ pc'[w] # "timeout") =>
                IF guard THEN pc'[w] = "reset_word"
                ELSE pc'[w] = "done" /\ UNCHANGED <<portVars, stop_event>>
          /\ (pc'[w] = "reset_word" /\ pc[w] # "reset_word") => (pc[w] = "timeout" /\ guard)
          /\ cycle'[w].reset_words > cycle[w].reset_words => pc[w] = "reset_word"
          /\ cycle'[w].reset_bits > cycle[w].reset_bits =>
                /\ cycle[w].reset_words = 1
                /\ ~cycle'[w].raised =>
                      /\ state'[p].last_weight = 0
                      /\ state'[p].last_update_time = 0]_vars

\* C25 witness: both reset writes returned in a cycle that found a forwarded
\* weight, and the state is cleared
C25_Witness ==
    /\ pc[1] = "done"
    /\ cycle[1].reset_words = 1 /\ cycle[1].reset_bits = 1 /\ ~cycle[1].raised
    /\ before_reset[1] # 0
    /\ state[1].last_weight = 0 /\ state[1].last_update_time = 0

\* C26: in every cycle that starts with the stop signal unset and in which no
\* call to the serial port or to the PLC raises, the timeout check runs
\* exactly once, after all lines of the batch have been processed; this
\* includes the cycles that found no bytes and those whose batch did not
\* decode.
C26_TimeoutCheckOncePerCycle ==
    [][\A w \in Workers :
          /\ cycle'[w].checks > cycle[w].checks =>
                (messages[w] = <<>> /\ cycle[w].checks = 0)
          /\ (/\ pc[w] \notin {"done", "dead"}
              /\ pc'[w] \in {"done", "dead"}
              /\ cycle'[w].ran
              /\ cycle'[w].error \notin {"socket_error", "mc_error"}) =>
                cycle'[w].checks = 1]_vars

\* C27: a cycle that starts while the stop signal is set does nothing: it
\* reads no serial bytes, writes nothing to the PLC and leaves the buffer,
\* last_weight and last_update_time of the port as they are.
C27_StoppedCycleDoesNothing ==
    [][\A w \in Workers :
          (pc[w] = "smode" /\ stop_event /\ pc'[w] # "smode") =>
              /\ pc'[w] = "done"
              /\ ~cycle'[w].ran
              /\ UNCHANGED <<serial_in, state, plc_word, plc_bit>>]_vars

\* C27 witness: the cycle returned at once and the bytes of the port are
\* still waiting
C27_Witness ==
    /\ pc[1] = "done"
    /\ stop_event
    /\ ~cycle[1].ran /\ cycle[1].error = "none"
    /\ serial_in[1] # <<>>

\* ------------------------------------------------------------------------
\* The monitor and one worker on a PLC link that may fail
\* ------------------------------------------------------------------------
FlakyStart ==
    /\ CycleInit
    /\ PoolInit
    /\ MainInit
    /\ FunInit
    /\ plc_healthy = FALSE
    /\ port_status = [p \in Ports |-> IF p = 1 THEN "open" ELSE "closed"]
    /\ \A p \in Ports : state[p].last_update_time = 0

FlakyNext ==
    \/ Tick /\ UNCHANGED <<poolVars, mainVars, funVars>>
    \/ \E p \in Ports : PoolArrive(p) /\ UNCHANGED <<mainVars, funVars>>
    \/ MonitorLoop /\ UNCHANGED <<mainVars, funVars>>
    \/ MonitorPoll /\ UNCHANGED <<mainVars, funVars>>
    \/ WorkerDequeue(1) /\ UNCHANGED <<mainVars, funVars>>
    \/ WorkerStep(1) /\ UNCHANGED <<poolVars, mainVars, funVars>>

FlakySpec == FlakyStart /\ [][FlakyNext]_vars

\* C28: a socket.error (OSError) raised by a PLC write, a PLC read-back or a
\* serial read in a worker's cycle, or by a port access in the poll of the
\* monitor, sets the stop signal; the forward it interrupts leaves
\* last_weight as it was.
C28_IoErrorSetsStop ==
    [][/\ \A w \in Workers :
            (cycle'[w].error = "socket_error" /\ cycle[w].error = "none") =>
                /\ stop_event'
                /\ state'[task[w]].last_weight = state[task[w]].last_weight
       /\ (mon_pc = "poll" /\ mon_pc' = "exit") => stop_event']_vars

\* C28 witness: the error was raised in a forward that had made a word-write
\* attempt, with a weight forwarded before on the port
C28_Witness ==
    /\ stop_event
    /\ cycle[1].error = "socket_error"
    /\ call[1].ret = "raised"
    /\ call[1].words >= 1

\* C29: a worker thread stops only when the stop signal is set: whether its
\* loop ended on its condition or on an error, a PLC protocol error during a
\* forward included, the stop signal was set first.
C29_WorkerStopsOnlyWhenStopped ==
    \A w \in Workers : pc[w] \in {"exit", "dead"} => stop_event

\* C30: once the stop signal has been set it is never cleared: it stays set
\* in every later state, also when new serial data waits on a port.
C30_StopNeverCleared ==
    [][stop_event => stop_event']_vars

\* C30 witness: the stop signal is set, main has not closed the ports yet and
\* a port has bytes waiting
C30_Witness ==
    /\ stop_event
    /\ main_pc = "join"
    /\ \E p \in Ports : port_status[p] = "open" /\ serial_in[p] # <<>>

\* C31: in every reachable state, also when several workers of the pool
\* process tasks of the same port, a port whose last_weight is not 0 has its
\* last_update_time set, so that the timeout reset can clear it.
C31_WeightImpliesTimeSet ==
    \A p \in Ports : state[p].last_weight # 0 => state[p].last_update_time # 0

\* C32: in every state the PLC can observe, the completion bit of a port is
\* 1 only while the words at its head device hold a weight: the bit at 1
\* with the words at [0, 0] is never reached, also during and after a timeout
\* reset whose second write fails.
C32_BitOnlyWithWeight ==
    \A p \in Ports : plc_bit[p] = 1 => plc_word[p] # <<0, 0>>

\* the PLC shows the weight of frame f at port p with the completion bit
Forwarded(p, f) ==
    /\ plc_word[p] = split_32bit_to_16bit(Parse(f).value)
    /\ plc_bit[p] = 1

\* C33: with a healthy PLC and fair scheduling of the monitor and the
\* workers, a complete valid frame that reaches an open port whose
\* last_weight is below its value (or 0) is eventually written to the head
\* device of the port with the bit at 1, unless the stop signal is set; the
\* other ports do not starve it.
C33_ValidFrameEventuallyForwarded ==
    \A p \in Ports :
        [](/\ port_status[p] = "open"
           /\ serial_in[p] = Frame93 \o CRLF
           /\ (state[p].last_weight = 0 \/ Parse(Frame93).value > state[p].last_weight)
           => <>(stop_event \/ Forwarded(p, Frame93)))

\* C34: a call of process_weight_data for a reading that matches the
\* grammar and whose scaled value is above 2^32 - 1 returns False without a
\* PLC write: the registers and last_weight keep their values, the stop
\* signal is not set and the message loop goes on with the next line.
C34_OutOfRangeDroppedLocally ==
    [][\A w \in Workers :
        (StartsCall(w) /\ Parse(Head(messages[w])).kind = "range")
        => /\ plc_word' = plc_word
           /\ plc_bit' = plc_bit
           /\ call'[w].ret = "False"
           /\ call'[w].words = 0
           /\ state'[task[w]].last_weight = state[task[w]].last_weight
           /\ stop_event' = stop_event
           /\ messages'[w] = Tail(messages[w])
           /\ pc'[w] = AfterCall(Tail(messages[w]))]_vars

\* C34 witness: the out-of-range reading was dropped after a forwarded one
\* and the next line of the batch is the one the loop is at
C34_Witness ==
    \E w \in Workers :
        /\ call[w].message = FrameOver32
        /\ call[w].ret = "False"
        /\ state[task[w]].last_weight = Parse(Frame93).value
        /\ pc[w] = "line"
        /\ messages[w] # <<>>
        /\ ~stop_event

\* connect.py line 27: max_attempts=3
max_attempts == 3

\* what one run of the ping command of lines 33-39 ends in: return code 0,
\* another return code, subprocess.TimeoutExpired or another exception
ProbeOutcomes == {"ok", "nonzero", "TimeoutExpired", "Exception"}

\* what a call ends in
CallResults == {"True", "False", "raised"}

\* the function has returned or raised
Finished(log) == log # <<>> /\ log[Len(log)] \in CallResults

\* the attempts of a call, without its result
Attempts(log) == SelectSeq(log, LAMBDA x : x \notin CallResults)

\* what the call ended in
ResultOf(log) == log[Len(log)]

\* the handlers that catch the time-out of the command only
ProbeFailsQuietlyTimeoutOnly(outcome) == outcome \in {"nonzero", "TimeoutExpired"}

\* ping_host lines 44-50: a return code other than 0 is logged, and so are
\* subprocess.TimeoutExpired and every other Exception
ProbeFailsQuietly(outcome) == outcome \in {"nonzero", "TimeoutExpired", "Exception"}

PingStart ==
    /\ CycleInit
    /\ PoolInit
    /\ MainInit
    /\ plc_healthy = TRUE
    /\ port_status = [p \in Ports |-> "open"]
    /\ \A p \in Ports : state[p].last_update_time = 0
    /\ argument \in [1..max_attempts -> ProbeOutcomes]
    /\ returned = <<>>

\* ping_host lines 31-53: one pass of the loop, which returns True when the
\* return code is 0
PingProbe ==
    LET outcome == argument[Len(returned) + 1] IN
    /\ ~Finished(returned)
    /\ Len(returned) < max_attempts
    /\ returned' = IF outcome = "ok" THEN returned \o <<outcome, "True">>
                   ELSE IF ProbeFailsQuietly(outcome) THEN Append(returned, outcome)
                   ELSE returned \o <<outcome, "raised">>
    /\ UNCHANGED <<argument, otherVars>>

\* ping_host lines 55-56: the loop is over, return False
PingExhausted ==
    /\ ~Finished(returned)
    /\ Len(returned) >= max_attempts
    /\ returned' = Append(returned, "False")
    /\ UNCHANGED <<argument, otherVars>>

PingNext == PingProbe \/ PingExhausted

PingSpec == PingStart /\ [][PingNext]_vars

\* C35: ping_host makes at most max_attempts probes, each with the outcome
\* the command had; a probe that succeeds is the last one and the call
\* returns True with it; the call returns False exactly when max_attempts
\* probes were made and none succeeded; it never raises.
C35_PingBoundedAndTotal ==
    LET probes == Attempts(returned)
        n == Len(probes)
    IN
    /\ n <= max_attempts
    /\ \A i \in 1..n : probes[i] = argument[i]
    /\ \A i \in 1..n : probes[i] = "ok" => (i = n /\ Finished(returned))
    /\ Finished(returned) =>
          /\ ResultOf(returned) \in {"True", "False"}
          /\ ResultOf(returned) = "True" <=> probes[n] = "ok"
          /\ ResultOf(returned) = "False" <=>
                (n = max_attempts /\ \A i \in 1..n : probes[i] # "ok")
    /\ ~Finished(returned) => (n < max_attempts \/ \A i \in 1..n : probes[i] # "ok")

\* C35 witness: three failed probes, one of them an exception, and False
C35_Witness ==
    returned = <<"nonzero", "Exception", "TimeoutExpired", "False">>

\* connect.py line 8: retries=5
retries == 5

\* what one call of pymc3e.connect (line 13) ends in: the link is up, the
\* socket timed out, or the socket raised another error (the peer refused
\* the connection, the network is unreachable)
ConnectOutcomes == {"ok", "TimeoutError", "ConnectionRefusedError", "OSError"}

\* the exceptions a caller's `except ConnectionError` (connect.py line 80,
\* main.py line 93) takes: ConnectionRefusedError is a ConnectionError
IsConnectionError(result) == result \in {"ConnectionError", "ConnectionRefusedError"}

ConnectStart ==
    /\ CycleInit
    /\ PoolInit
    /\ MainInit
    /\ plc_healthy = TRUE
    /\ port_status = [p \in Ports |-> "open"]
    /\ \A p \in Ports : state[p].last_update_time = 0
    /\ argument \in [1..retries -> ConnectOutcomes]
    /\ returned = [made |-> <<>>, result |-> "none"]

\* initialize_connection lines 11-22: one pass of the loop. The link is
\* returned when connect succeeds, a TimeoutError is logged and the loop
\* goes on after the delay, every other exception leaves the function
ConnectAttempt ==
    LET outcome == argument[Len(returned.made) + 1] IN
    /\ returned.result = "none"
    /\ Len(returned.made) < retries
    /\ returned' = [made |-> Append(returned.made, outcome),
                    result |-> IF outcome = "ok" THEN "link"
                               ELSE IF outcome = "TimeoutError" THEN "none"
                               ELSE outcome]
    /\ UNCHANGED <<argument, otherVars>>

\* initialize_connection line 23: the loop is over, raise ConnectionError
ConnectGiveUp ==
    /\ returned.result = "none"
    /\ Len(returned.made) >= retries
    /\ returned' = [returned EXCEPT !.result = "ConnectionError"]
    /\ UNCHANGED <<argument, otherVars>>

ConnectNext == ConnectAttempt \/ ConnectGiveUp

ConnectSpec == ConnectStart /\ [][ConnectNext]_vars

\* C36: initialize_connection makes at most `retries` connection attempts; an
\* attempt that succeeds is the last one and the call returns the link with
\* it; the call ends in a ConnectionError exactly when `retries` attempts
\* were made and all of them timed out.
C36_ConnectBoundedRetries ==
    LET n == Len(returned.made) IN
    /\ n <= retries
    /\ \A i \in 1..n : returned.made[i] = "ok" => (i = n /\ returned.result = "link")
    /\ returned.result = "link" => returned.made[n] = "ok"
    /\ returned.result # "none" =>
          (IsConnectionError(returned.result) <=>
              (n = retries /\ \A i \in 1..n : returned.made[i] = "TimeoutError"))

\* the longest entry of a one-entry SERIAL_PORTS value
MaxEntryLen == 5

\* the most entries of a SERIAL_PORTS value made of sample entries
MaxEntries == 3

\* the characters of an entry: two letters, the separators, a blank and the
\* slash of a device path
EntryChars == {"p", "D", ":", ",", " ", "/"}

AllEntries == UNION {[1..k -> EntryChars] : k \in 0..MaxEntryLen}

\* entries of the format, blank ones and broken ones
SampleEntries ==
    {<<"p", ":", "D", ",", "p">>, <<"p", ":", "p", ",", "D">>, <<"D", ":", "p", ",", "p">>,
     <<>>, <<" ">>, <<"p", "D", ",", "p">>, <<"p", ":", "D", "p">>,
     <<"p", ":", "D", ",", "p", ",", "D">>}

\* ";".join(entries)
RECURSIVE Join(_)
Join(entries) ==
    IF entries = <<>> THEN <<>>
    ELSE IF Len(entries) = 1 THEN entries[1]
    ELSE entries[1] \o <<";">> \o Join(Tail(entries))

\* the values of the SERIAL_PORTS environment variable
ConfigValues ==
    {Join(<<e>>) : e \in AllEntries}
        \cup {Join(es) : es \in UNION {[1..k -> SampleEntries] : k \in 0..MaxEntries}}

\* str.split(sep)
RECURSIVE SplitOn(_, _)
SplitOn(s, sep) ==
    IF \A i \in 1..Len(s) : s[i] # sep THEN <<s>>
    ELSE LET k == CHOOSE i \in 1..Len(s) : s[i] = sep /\ \A j \in 1..(i - 1) : s[j] # sep
         IN <<SubSeq(s, 1, k - 1)>> \o SplitOn(SubSeq(s, k + 1, Len(s)), sep)

\* str.split(sep, 1)
SplitFirst(s, sep) ==
    IF \A i \in 1..Len(s) : s[i] # sep THEN <<s>>
    ELSE LET k == CHOOSE i \in 1..Len(s) : s[i] = sep /\ \A j \in 1..(i - 1) : s[j] # sep
         IN <<SubSeq(s, 1, k - 1), SubSeq(s, k + 1, Len(s))>>

\* str.lstrip(chars)
RECURSIVE LStrip(_, _)
LStrip(s, chars) ==
    IF s # <<>> /\ Head(s) \in chars THEN LStrip(Tail(s), chars) ELSE s

\* the assignment that keeps the entry a port already has
PutKeepsFirst(mapping, port, devices) ==
    [x \in DOMAIN mapping \cup {port} |-> IF x \in DOMAIN mapping THEN mapping[x] ELSE devices]

\* parse_serial_ports_config line 21: mapping[port.strip()] = (headdevice, bitunit)
Put(mapping, port, devices) ==
    [x \in DOMAIN mapping \cup {port} |-> IF x = port THEN devices ELSE mapping[x]]

\* parse_serial_ports_config lines 14-23: one pass of the loop. The two
\* unpackings raise ValueError unless the split gives two parts
ParseEntry(mapping, entry) ==
    IF Strip(entry) = <<>> THEN mapping
    ELSE LET parts == SplitFirst(Strip(entry), ":") IN
         IF Len(parts) # 2 THEN mapping
         ELSE LET devices == SplitOn(parts[2], ",") IN
              IF Len(devices) # 2 THEN mapping
              ELSE Put(mapping, Strip(parts[1]),
                       <<LStrip(devices[1], {"/"}), Strip(devices[2])>>)

RECURSIVE ParseEntries(_, _)
ParseEntries(mapping, entries) ==
    IF entries = <<>> THEN mapping
    ELSE ParseEntries(ParseEntry(mapping, Head(entries)), Tail(entries))

\* parse_serial_ports_config lines 12-24; the empty mapping is <<>>
parse_serial_ports_config(env_value) == ParseEntries(<<>>, SplitOn(env_value, ";"))

ConfigStart ==
    /\ CycleInit
    /\ PoolInit
    /\ MainInit
    /\ plc_healthy = TRUE
    /\ port_status = [p \in Ports |-> "open"]
    /\ \A p \in Ports : state[p].last_update_time = 0
    /\ argument \in ConfigValues
    /\ returned = <<>>

ConfigCall ==
    /\ returned = <<>>
    /\ returned' = <<parse_serial_ports_config(argument)>>
    /\ UNCHANGED <<argument, otherVars>>

ConfigNext == ConfigCall

ConfigSpec == ConfigStart /\ [][ConfigNext]_vars

\* the number of times character c occurs in entry
CountOf(entry, c) == Cardinality({i \in 1..Len(entry) : entry[i] = c})

\* an entry of the format port:headDevice,bitUnit, the three names made of
\* letters
WellFormed(entry) ==
    /\ CountOf(entry, ":") = 1
    /\ CountOf(entry, ",") = 1
    /\ \E i, j \in 1..Len(entry) :
          /\ entry[i] = ":" /\ entry[j] = ","
          /\ 1 < i /\ i + 1 < j /\ j < Len(entry)
    /\ \A i \in 1..Len(entry) : entry[i] \in {"p", "D", ":", ","}

\* the names of a well-formed entry
PortOf(entry) == SubSeq(entry, 1, (CHOOSE i \in 1..Len(entry) : entry[i] = ":") - 1)
HeadDeviceOf(entry) ==
    SubSeq(entry, (CHOOSE i \in 1..Len(entry) : entry[i] = ":") + 1,
                  (CHOOSE j \in 1..Len(entry) : entry[j] = ",") - 1)
BitUnitOf(entry) ==
    SubSeq(entry, (CHOOSE j \in 1..Len(entry) : entry[j] = ",") + 1, Len(entry))

\* the mapping of a list of well-formed entries: for every port the devices
\* of its last entry
LaterWins(entries) ==
    [port \in {PortOf(entries[i]) : i \in 1..Len(entries)} |->
        LET last == CHOOSE i \in 1..Len(entries) :
                        /\ PortOf(entries[i]) = port
                        /\ \A j \in (i + 1)..Len(entries) : PortOf(entries[j]) # port
        IN <<HeadDeviceOf(entries[last]), BitUnitOf(entries[last])>>]

\* a blank entry
IsBlank(entry) == \A i \in 1..Len(entry) : entry[i] = " "

\* an entry without ':' or without exactly one ','
LacksSeparators(entry) == CountOf(entry, ":") = 0 \/ CountOf(entry, ",") # 1

\* an entry without ':' or whose part after the first ':' does not hold
\* exactly one ','
LacksDeviceSeparators(entry) ==
    \/ CountOf(entry, ":") = 0
    \/ CountOf(SplitFirst(entry, ":")[2], ",") # 1

\* C37 as stated: the result is the mapping of the well-formed entries, the
\* later entry of a port winning, when every other entry is blank or lacks
\* ':' or has not exactly one ',' (such entries are skipped and leave the
\* others in place).
C37_ConfigParsedAsStated ==
    returned # <<>> =>
        LET entries == SplitOn(argument, ";")
            kept == SelectSeq(entries, LAMBDA e : ~IsBlank(e) /\ ~LacksSeparators(e))
        IN (\A i \in 1..Len(kept) : WellFormed(kept[i])) => returned[1] = LaterWins(kept)

\* C37 amended: the same, the skipped entries being the blank ones, the ones
\* without ':' and the ones whose part after the first ':' does not hold
\* exactly one ','.
C37_ConfigParsed ==
    returned # <<>> =>
        LET entries == SplitOn(argument, ";")
            kept == SelectSeq(entries, LAMBDA e : ~IsBlank(e) /\ ~LacksDeviceSeparators(e))
        IN (\A i \in 1..Len(kept) : WellFormed(kept[i])) => returned[1] = LaterWins(kept)

\* C37 witness: a port with two entries and an entry without ',' between
\* them; the second entry of the port is the one in the result
C37_Witness ==
    /\ argument = Join(<<<<"p", ":", "D", ",", "p">>, <<"p", ":", "D", "p">>,
                         <<"p", ":", "p", ",", "D">>>>)
    /\ returned = <<[port \in {<<"p">>} |-> <<<<"p">>, <<"D">>>>]>>

====
